---- MODULE Spec2Model ----
(***************************************************************************)
(* Model of the SWOB-to-GeoJSON converter (src/src/swob2geojsonV2.py):     *)
(* parse_swob, swob2geojson, visualizeDict and the module-level entry      *)
(* point that chains them; of the first draft (src/src/swob2geojson.py),   *)
(* the identification loop that captures the coordinates.                  *)
(*                                                                         *)
(* Strings.  A Python str is modelled as the sequence of its tokens; the   *)
(* string is the concatenation of the tokens.  The tokens used are chosen  *)
(* prefix-free (no token is a prefix of another), so two token sequences   *)
(* are equal exactly when the strings they spell are equal, and \o is      *)
(* string concatenation.  The empty string is << >>.                       *)
(*                                                                         *)
(* Python values are tagged: [type |-> "str" | "list" | "dict" |           *)
(* "NoneType", v |-> payload].  A dict payload is [order |-> the keys in    *)
(* insertion order, at |-> the function from keys to Python values].       *)
(***************************************************************************)
EXTENDS Integers, Sequences, FiniteSets, TLC

VARIABLES
    string,     \* the path literal handed to parse_swob
    doc,        \* what is on disk at that path
    swob_dict,  \* module-level swob_dict: result of parse_swob
    geoJson,    \* module-level geoJson: result of swob2geojson
    stdout,     \* what print() has written so far
    fault,      \* name of the exception that ended the program, "" if none
    pc          \* position in the entry-point chain

vars == <<string, doc, swob_dict, geoJson, stdout, fault, pc>>

----------------------------------------------------------------------------
\* Python values

PyStr(s) == [type |-> "str", v |-> s]

PyList(q) == [type |-> "list", v |-> q]

PyDict(d) == [type |-> "dict", v |-> d]

PyNone == [type |-> "NoneType", v |-> << >>]

EmptyDict == [order |-> << >>, at |-> [x \in {} |-> PyNone]]

\* k in d.keys()
HasKey(d, k) == k \in DOMAIN d.at

\* d[k] = v on a dict payload: a new key goes last, an old key keeps its place
DictSet(d, k, v) ==
    [order |-> IF HasKey(d, k) THEN d.order ELSE Append(d.order, k),
     at |-> [x \in (DOMAIN d.at) \cup {k} |-> IF x = k THEN v ELSE d.at[x]]]

\* str(x) as the printer uses it: a str prints as itself, None as "None",
\* a list of str as the bracketed, comma-separated reprs of its items
\* (the items here hold no quote or backslash, so repr only adds quotes).
RECURSIVE ReprItems(_)
ReprItems(q) ==
    IF Len(q) = 0 THEN << >>
    ELSE <<"'">> \o Head(q).v \o <<"'">>
         \o (IF Len(q) > 1 THEN <<",", " ">> ELSE << >>) \o ReprItems(Tail(q))

PyToStr(x) ==
    CASE x.type = "str" -> x.v
      [] x.type = "NoneType" -> <<"None">>
      [] x.type = "list" -> <<"[">> \o ReprItems(x.v) \o <<"]">>

----------------------------------------------------------------------------
\* String helpers

\* position of the last occurrence of token c in s, 0 if there is none
LastIndexOf(s, c) ==
    IF \E i \in 1..Len(s) : s[i] = c
    THEN CHOOSE i \in 1..Len(s) : s[i] = c /\ \A j \in (i+1)..Len(s) : s[j] # c
    ELSE 0

\* variant: only the first '/' is replaced
ReplaceFirstSlash(s) ==
    [i \in 1..Len(s) |->
        IF s[i] = "/" /\ (\A j \in 1..(i-1) : s[j] # "/") THEN "-" ELSE s[i]]

\* s.replace('/', '-')
ReplaceSlash(s) == [i \in 1..Len(s) |-> IF s[i] = "/" THEN "-" ELSE s[i]]

\* the last piece of swob_file.split('\\')
swob_name(swob_file) ==
    SubSeq(swob_file, LastIndexOf(swob_file, "\\") + 1, Len(swob_file))

\* An element tag is "{namespace}local"; the namespace is one token.
NsToken == "{dset}"

\* element.tag.split('}') has a piece [1] only when the tag holds a '}'
TagHasLocal(tag) == Len(tag) > 0 /\ Head(tag) = NsToken

\* element.tag.split('}')[1]
TagLocal(tag) == Tail(tag)

----------------------------------------------------------------------------
\* The XML document as ElementTree presents it.
\*   element : [tag |-> str, attr |-> function from attribute names to str]
\*   subtree : [found |-> BOOLEAN, elems |-> the elements of the first match of
\*              findall(path), root first, in document order (Element.iter())]
\*   time    : [found |-> BOOLEAN, text |-> PyStr(...) or PyNone (no text)]
\*   result  : [found |-> BOOLEAN, elems |-> the elements in document order,
\*              each with the depth of its position below the matched root]

\* the last index of the subtree rooted at nodes[i]: Element.iter() of nodes[i]
\* yields nodes[i..SubtreeEnd(nodes, i)]
SubtreeEnd(nodes, i) ==
    CHOOSE j \in i..Len(nodes) :
        /\ \A k \in (i+1)..j : nodes[k].depth > nodes[i].depth
        /\ (j < Len(nodes) => nodes[j+1].depth <= nodes[i].depth)

----------------------------------------------------------------------------
\* parse_swob

\* variant: the return statement dedented out of the "if not error" block
parse_failed_return_record(swob_values) == PyDict(swob_values)

\* the function falls off its end when error is set: Python returns None and
\* the locally built swob_values is dropped
parse_failed_return(swob_values) == PyNone

\* lines 76-80: one element of the general-info subtree
general_step(st, element) ==
    IF "name" \in DOMAIN element.attr
    THEN IF ~TagHasLocal(element.tag)
         THEN [st EXCEPT !.fault = "IndexError"]
         ELSE IF TagLocal(element.tag) = <<"dataset">>
              THEN [st EXCEPT !.properties =
                        DictSet(@, TagLocal(element.tag),
                                PyStr(ReplaceSlash(element.attr["name"])))]
              ELSE st
    ELSE st

RECURSIVE general_loop(_, _, _)
general_loop(elems, i, st) ==
    IF st.fault # "" \/ i > Len(elems) THEN st
    ELSE general_loop(elems, i + 1, general_step(st, elems[i]))

\* lines 98-105
IdProperties == {<<"stn_nam">>, <<"tc_id">>, <<"msc_id">>, <<"clim_id">>}

\* variant: a coordinate is captured only while it is still empty
identification_step_first(st, element) ==
    IF "name" \in DOMAIN element.attr
    THEN IF "value" \notin DOMAIN element.attr
         THEN [st EXCEPT !.fault = "KeyError"]
         ELSE LET name == element.attr["name"]
                  value == element.attr["value"]
              IN  CASE name \in IdProperties ->
                         [st EXCEPT !.properties = DictSet(@, name, PyStr(value))]
                    [] name = <<"stn_elev">> /\ st.elevation = << >> ->
                         [st EXCEPT !.elevation = value]
                    [] name = <<"lat">> /\ st.latitude = << >> ->
                         [st EXCEPT !.latitude = value]
                    [] name = <<"long">> /\ st.longitude = << >> ->
                         [st EXCEPT !.longitude = value]
                    [] OTHER -> st
    ELSE st

\* lines 91-113: one element of the identification subtree
identification_step(st, element) ==
    IF "name" \in DOMAIN element.attr
    THEN IF "value" \notin DOMAIN element.attr
         THEN [st EXCEPT !.fault = "KeyError"]
         ELSE LET name == element.attr["name"]
                  value == element.attr["value"]
              IN  CASE name \in IdProperties ->
                         [st EXCEPT !.properties = DictSet(@, name, PyStr(value))]
                    [] name = <<"stn_elev">> -> [st EXCEPT !.elevation = value]
                    [] name = <<"lat">> -> [st EXCEPT !.latitude = value]
                    [] name = <<"long">> -> [st EXCEPT !.longitude = value]
                    [] OTHER -> st
    ELSE st

RECURSIVE identification_loop(_, _, _)
identification_loop(elems, i, st) ==
    IF st.fault # "" \/ i > Len(elems) THEN st
    ELSE identification_loop(elems, i + 1, identification_step(st, elems[i]))

\* variant: latitude first
coordinates_lat_first(longitude, latitude, elevation) ==
    PyList(<<PyStr(latitude), PyStr(longitude), PyStr(elevation)>>)

\* The first draft, swob2geojson.py lines 91-109: what its identification
\* loop does to the three coordinates.  The coordinate is read when the loop
\* over the element's attributes reaches the key 'name'.
draft_identification_step(st, element) ==
    IF "name" \in DOMAIN element.attr
    THEN LET name == element.attr["name"]
         IN  IF name \in {<<"stn_elev">>, <<"lat">>, <<"long">>}
             THEN IF "value" \notin DOMAIN element.attr
                  THEN [st EXCEPT !.fault = "KeyError"]
                  ELSE CASE name = <<"stn_elev">> ->
                                [st EXCEPT !.elevation = element.attr["value"]]
                         [] name = <<"lat">> ->
                                [st EXCEPT !.latitude = element.attr["value"]]
                         [] name = <<"long">> ->
                                [st EXCEPT !.longitude = element.attr["value"]]
             ELSE st
    ELSE st

RECURSIVE draft_identification_loop(_, _, _)
draft_identification_loop(elems, i, st) ==
    IF st.fault # "" \/ i > Len(elems) THEN st
    ELSE draft_identification_loop(elems, i + 1,
                                   draft_identification_step(st, elems[i]))

\* swob2geojson.py lines 54-56, 88-109: the draft's swob_values['coordinates']
draft_coordinates(elems) ==
    LET st == draft_identification_loop(elems, 1,
                  [elevation |-> << >>, latitude |-> << >>, longitude |-> << >>,
                   fault |-> ""])
    IN  [fault |-> st.fault,
         ret |-> PyList(<<PyStr(st.longitude), PyStr(st.latitude),
                          PyStr(st.elevation)>>)]

\* line 116
coordinates_of(longitude, latitude, elevation) ==
    PyList(<<PyStr(longitude), PyStr(latitude), PyStr(elevation)>>)

\* variant: 'unitless' is not filtered out
uom_of_unfiltered(attr) == IF "uom" \in DOMAIN attr THEN attr["uom"] ELSE << >>

\* lines 134, 139-141: the uom a result element contributes, '' for none
uom_of(attr) ==
    IF "uom" \in DOMAIN attr /\ attr["uom"] # <<"unitless">>
    THEN attr["uom"]
    ELSE << >>

\* lines 133, 137-138: the value a result element contributes, '' for none
value_of(attr) == IF "value" \in DOMAIN attr THEN attr["value"] ELSE << >>

\* lines 132-155: one visit of a result element
result_step(st, nest_elem) ==
    IF "name" \in DOMAIN nest_elem.attr
    THEN LET name == nest_elem.attr["name"]
             value == value_of(nest_elem.attr)
             uom == uom_of(nest_elem.attr)
         IN  IF name # <<"qa_summary">> /\ name # <<"data_flag">>
             THEN LET p1 == DictSet(st.properties, name, PyStr(value))
                      p2 == IF uom # << >>
                            THEN DictSet(p1, name \o <<"_uom">>, PyStr(uom))
                            ELSE p1
                  IN  [st EXCEPT !.properties = p2, !.last_element = name]
             ELSE IF name = <<"qa_summary">>
                  THEN [st EXCEPT !.properties =
                            DictSet(@, st.last_element \o <<"_qa">>, PyStr(value))]
                  ELSE [st EXCEPT !.properties =
                            DictSet(@, st.last_element \o <<"_data_flags">>,
                                    PyStr(value))]
    ELSE st

\* lines 130-131: for nest_elem in element.iter()
RECURSIVE result_nested(_, _, _, _)
result_nested(nodes, j, last, st) ==
    IF j > last THEN st
    ELSE result_nested(nodes, j + 1, last, result_step(st, nodes[j]))

\* lines 126-129: for element in list(result_tree[0].iter())
RECURSIVE result_loop(_, _, _)
result_loop(nodes, i, st) ==
    IF i > Len(nodes) THEN st
    ELSE result_loop(nodes, i + 1,
                     result_nested(nodes, i, SubtreeEnd(nodes, i), st))

Raise(exc) == [ret |-> PyNone, out |-> << >>, fault |-> exc]

ParseErrorMsg == <<"Error in parsing file">>

\* lines 45-159.  d is the file at swob_file: d.parseable is whether
\* et.parse(swob_file) returns a tree (the file opens and is well-formed XML).
parse_swob(swob_file, d) ==
    LET name == swob_name(swob_file) IN
    IF ~d.parseable
    THEN [ret |-> parse_failed_return(EmptyDict), out |-> <<ParseErrorMsg>>,
          fault |-> ""]
    ELSE IF ~d.general.found THEN Raise("IndexError")
    ELSE LET g == general_loop(d.general.elems, 1,
                               [properties |-> EmptyDict, fault |-> ""])
    IN   IF g.fault # "" THEN Raise(g.fault)
    ELSE IF ~d.identification.found THEN Raise("IndexError")
    ELSE LET id == identification_loop(d.identification.elems, 1,
                       [properties |-> DictSet(g.properties, <<"swob">>, PyStr(name)),
                        elevation |-> << >>, latitude |-> << >>,
                        longitude |-> << >>, fault |-> ""])
    IN   IF id.fault # "" THEN Raise(id.fault)
    ELSE IF ~d.samplingTime.found THEN Raise("IndexError")
    ELSE IF ~d.resultTime.found THEN Raise("IndexError")
    ELSE IF ~d.result.found THEN Raise("IndexError")
    ELSE LET p3 == DictSet(DictSet(id.properties, <<"obs_date_tm">>,
                                   d.samplingTime.text),
                           <<"processed_date_tm">>, d.resultTime.text)
             r == result_loop(d.result.elems, 1,
                              [properties |-> p3, last_element |-> << >>])
             swob_values ==
                 DictSet(DictSet(EmptyDict, <<"coordinates">>,
                                 coordinates_of(id.longitude, id.latitude,
                                                id.elevation)),
                         <<"properties">>, PyDict(r.properties))
    IN   [ret |-> PyDict(swob_values), out |-> << >>, fault |-> ""]

----------------------------------------------------------------------------
\* swob2geojson

\* variant: "or" in place of "and"
has_either_key(d) == HasKey(d, <<"properties">>) \/ HasKey(d, <<"coordinates">>)

\* line 185
has_required_keys(d) == HasKey(d, <<"properties">>) /\ HasKey(d, <<"coordinates">>)

\* variant: the whole record is stored as the Feature's properties
feature_of_record(d) ==
    DictSet(DictSet(DictSet(EmptyDict,
        <<"type">>, PyStr(<<"Feature">>)),
        <<"geometry">>,
            PyDict(DictSet(DictSet(EmptyDict, <<"type">>, PyStr(<<"Point">>)),
                           <<"coordinates">>, d.at[<<"coordinates">>]))),
        <<"properties">>, PyDict(d))

\* lines 182, 186-188
feature_of(d) ==
    DictSet(DictSet(DictSet(EmptyDict,
        <<"type">>, PyStr(<<"Feature">>)),
        <<"geometry">>,
            PyDict(DictSet(DictSet(EmptyDict, <<"type">>, PyStr(<<"Point">>)),
                           <<"coordinates">>, d.at[<<"coordinates">>]))),
        <<"properties">>, d.at[<<"properties">>])

BuilderErrorMsg ==
    <<"Error, incorrectly formated dictionary passed into swob2geojson">>

\* lines 181-192.  arg is the argument object as the call leaves it.
swob2geojson(swob) ==
    IF swob.type # "dict"
    THEN [ret |-> PyNone, arg |-> swob, out |-> << >>, fault |-> "AttributeError"]
    ELSE IF has_required_keys(swob.v)
    THEN IF ~HasKey(swob.v, <<"coordinates">>) \/ ~HasKey(swob.v, <<"properties">>)
         THEN [ret |-> PyNone, arg |-> swob, out |-> << >>, fault |-> "KeyError"]
         ELSE [ret |-> PyDict(feature_of(swob.v)), arg |-> swob, out |-> << >>,
               fault |-> ""]
    ELSE [ret |-> PyNone, arg |-> swob, out |-> <<BuilderErrorMsg>>, fault |-> ""]

----------------------------------------------------------------------------
\* visualizeDict

Indent == <<" ", " ", " ", " ">>

\* lines 169-170
RECURSIVE inner_lines(_, _)
inner_lines(d, i) ==
    IF i > Len(d.order) THEN << >>
    ELSE <<Indent \o d.order[i] \o <<" ">> \o PyToStr(d.at[d.order[i]])>>
         \o inner_lines(d, i + 1)

\* lines 166-173
RECURSIVE outer_lines(_, _)
outer_lines(d, i) ==
    IF i > Len(d.order) THEN << >>
    ELSE LET key == d.order[i]
             val == d.at[key]
         IN  <<key>>
             \o (IF val.type = "dict" THEN inner_lines(val.v, 1)
                 ELSE <<Indent \o PyToStr(val)>>)
             \o << << >> >>
             \o outer_lines(d, i + 1)

\* lines 165-173
visualizeDict(dic) ==
    IF dic.type # "dict"
    THEN [out |-> << >>, fault |-> "AttributeError"]
    ELSE [out |-> outer_lines(dic.v, 1), fault |-> ""]

----------------------------------------------------------------------------
\* The entry point, lines 194-200

NoFault == [exc |-> "", in |-> ""]

Unbound == [type |-> "unbound", v |-> << >>]

\* line 196
Call_parse_swob ==
    /\ pc = "parse"
    /\ LET r == parse_swob(string, doc)
       IN  /\ stdout' = stdout \o r.out
           /\ IF r.fault # ""
              THEN /\ fault' = [exc |-> r.fault, in |-> "parse_swob"]
                   /\ pc' = "fault"
                   /\ UNCHANGED swob_dict
              ELSE /\ swob_dict' = r.ret
                   /\ pc' = "build"
                   /\ UNCHANGED fault
    /\ UNCHANGED <<string, doc, geoJson>>

\* line 198
Call_swob2geojson ==
    /\ pc = "build"
    /\ LET r == swob2geojson(swob_dict)
       IN  /\ stdout' = stdout \o r.out
           /\ swob_dict' = r.arg
           /\ IF r.fault # ""
              THEN /\ fault' = [exc |-> r.fault, in |-> "swob2geojson"]
                   /\ pc' = "fault"
                   /\ UNCHANGED geoJson
              ELSE /\ geoJson' = r.ret
                   /\ pc' = "visualize"
                   /\ UNCHANGED fault
    /\ UNCHANGED <<string, doc>>

\* line 200
Call_visualizeDict ==
    /\ pc = "visualize"
    /\ LET r == visualizeDict(geoJson)
       IN  /\ stdout' = stdout \o r.out
           /\ IF r.fault # ""
              THEN /\ fault' = [exc |-> r.fault, in |-> "visualizeDict"]
                   /\ pc' = "fault"
              ELSE /\ pc' = "done"
                   /\ UNCHANGED fault
    /\ UNCHANGED <<string, doc, swob_dict, geoJson>>

Next == Call_parse_swob \/ Call_swob2geojson \/ Call_visualizeDict

----------------------------------------------------------------------------
\* Input documents

\* stands for an attribute the element does not carry
Absent == <<"<absent>">>

MkAttr(n, v, u) ==
    LET present == (IF n # Absent THEN {"name"} ELSE {})
                   \cup (IF v # Absent THEN {"value"} ELSE {})
                   \cup (IF u # Absent THEN {"uom"} ELSE {})
    IN  [k \in present |-> CASE k = "name" -> n [] k = "value" -> v [] k = "uom" -> u]

NoAttr == MkAttr(Absent, Absent, Absent)

Elem(local, qualified, attr) ==
    [tag |-> (IF qualified THEN <<NsToken>> ELSE << >>) \o local, attr |-> attr]

Node(depth, attr) == [depth |-> depth, attr |-> attr]

Subtree(elems) == [found |-> TRUE, elems |-> elems]

NotFound == [found |-> FALSE, elems |-> << >>]

TimePos(text) == [found |-> TRUE, text |-> text]

NoTimePos == [found |-> FALSE, text |-> PyNone]

GoodGeneral ==
    Subtree(<<Elem(<<"general">>, TRUE, NoAttr),
              Elem(<<"author">>, TRUE,
                   MkAttr(<<"MSC">>, Absent, Absent)),
              Elem(<<"dataset">>, TRUE,
                   MkAttr(<<"mscobservation", "/", "atmospheric">>, Absent, Absent))>>)

IdElem(n, v) == Elem(<<"element">>, TRUE, MkAttr(n, v, Absent))

IdRoot == Elem(<<"identification", "-", "elements">>, TRUE, NoAttr)

GoodIdentification ==
    Subtree(<<IdRoot,
              IdElem(<<"stn_nam">>, <<"CAAW">>),
              IdElem(<<"lat">>, <<"45.5">>),
              IdElem(<<"long">>, <<"-", "75.5">>),
              IdElem(<<"stn_elev">>, <<"100">>)>>)

GoodSamplingTime == TimePos(PyStr(<<"2020-06-08T00:00:00.000Z">>))

GoodResultTime == TimePos(PyStr(<<"2020-06-08T00:01:10.668Z">>))

ResultRoot == Node(0, NoAttr)

GoodResult ==
    Subtree(<<ResultRoot,
              Node(1, MkAttr(<<"temp">>, <<"12.3">>, <<"degC">>)),
              Node(2, MkAttr(<<"qa_summary">>, <<"100">>, <<"unitless">>))>>)

Document(general, identification, samplingTime, resultTime, result) ==
    [parseable |-> TRUE, general |-> general, identification |-> identification,
     samplingTime |-> samplingTime, resultTime |-> resultTime, result |-> result]

\* a file that does not open or is not well-formed XML: there is no tree
Unparseable ==
    [parseable |-> FALSE, general |-> NotFound, identification |-> NotFound,
     samplingTime |-> NoTimePos, resultTime |-> NoTimePos, result |-> NotFound]

GoodDocument ==
    Document(GoodGeneral, GoodIdentification, GoodSamplingTime, GoodResultTime,
             GoodResult)

\* line 195
PathLiteral ==
    <<"C:", "\\", "Users", "\\", "Robert", "\\", "Desktop", "\\",
      "swob", "2geojson", "\\", "2020-06-08-0000-CAAW-AUTO-minute-swob.xml">>

\* the depth sequences of n elements in document order below a root of depth 0
DepthSeqs(n) ==
    {s \in [1..n -> 1..n] : s[1] = 1 /\ \A i \in 2..n : s[i] <= s[i-1] + 1}

Start(path, d) ==
    /\ string = path
    /\ doc = d
    /\ swob_dict = Unbound
    /\ geoJson = Unbound
    /\ stdout = << >>
    /\ fault = NoFault
    /\ pc = "parse"

----------------------------------------------------------------------------
\* Spec: the entry point on documents that are unparseable, or well-formed
\* with any of the five subtrees missing or an identification element
\* lacking its value.

MainPaths == {PathLiteral, <<"x", "/", "y">>, <<"y">>}

MainIdentifications ==
    {NotFound, GoodIdentification,
     Subtree(<<IdRoot, IdElem(<<"lat">>, Absent)>>)}

MainTexts == {PyStr(<<"2020-06-08T00:00:00.000Z">>), PyNone}

MainDocuments ==
    {Unparseable} \cup
    {Document(g, i, st, rt, r) :
        g \in {NotFound, GoodGeneral},
        i \in MainIdentifications,
        st \in {NoTimePos} \cup {TimePos(t) : t \in MainTexts},
        rt \in {NoTimePos, GoodResultTime},
        r \in {NotFound, GoodResult}}

Init == \E path \in MainPaths, d \in MainDocuments : Start(path, d)

Spec == Init /\ [][Next]_vars

\* C2: every run of parse_swob -> swob2geojson -> visualizeDict ends each
\* operation by a return or a reported error; no run reaches an unhandled
\* fault, whatever the document.
C2_NoUnhandledFault == pc # "fault"

\* C7: on a file that is not XML, is malformed or cannot be opened, parse_swob
\* reports the failure and returns None: it raises nothing and returns no
\* record.
C7_ParseFailureReturnsAbsent ==
    (~doc.parseable /\ pc # "parse") =>
        /\ swob_dict.type = "NoneType"
        /\ fault.in # "parse_swob"
        /\ Len(stdout) >= 1
        /\ stdout[1] = <<"Error in parsing file">>

\* an unparseable file has gone through parse_swob
C7_Witness == ~doc.parseable /\ pc = "build" /\ string = PathLiteral

----------------------------------------------------------------------------
\* SpecBuilder: swob2geojson, then the printer, on records of every key set.

BuilderValues == {<<"va">>, <<"vb">>}

\* the dicts whose keys are among ks, inserted in the order of ks
RECURSIVE DictsOver(_)
DictsOver(ks) ==
    IF Len(ks) = 0 THEN {EmptyDict}
    ELSE LET rest == DictsOver(Tail(ks))
         IN  rest \cup {DictSet(d, Head(ks), PyStr(v)) :
                            d \in rest, v \in BuilderValues}

BuilderProperties == DictsOver(<<<<"temp">>, <<"temp", "_qa">>>>)

BuilderCoordinates ==
    {coordinates_of(lo, la, el) :
        lo \in {<< >>, <<"-", "75.5">>}, la \in {<< >>, <<"45.5">>},
        el \in {<< >>, <<"100">>}}

\* a record holding the keys of ks (a subset of coordinates, properties,
\* identification), inserted in parse order
BuilderRecord(ks, c, p) ==
    LET d0 == EmptyDict
        d1 == IF "coordinates" \in ks THEN DictSet(d0, <<"coordinates">>, c) ELSE d0
        d2 == IF "identification" \in ks
              THEN DictSet(d1, <<"identification">>, PyDict(EmptyDict)) ELSE d1
        d3 == IF "properties" \in ks THEN DictSet(d2, <<"properties">>, PyDict(p))
              ELSE d2
    IN  PyDict(d3)

BuilderRecords ==
    {BuilderRecord(ks, c, p) :
        ks \in SUBSET {"coordinates", "identification", "properties"},
        c \in BuilderCoordinates, p \in BuilderProperties}

InitBuilder ==
    /\ string = PathLiteral
    /\ doc = GoodDocument
    /\ swob_dict \in BuilderRecords
    /\ geoJson = Unbound
    /\ stdout = << >>
    /\ fault = NoFault
    /\ pc = "build"

NextBuilder == Call_swob2geojson \/ Call_visualizeDict

SpecBuilder == InitBuilder /\ [][NextBuilder]_vars

\* the record has both keys the Builder requires
Complete(rec) ==
    {<<"properties">>, <<"coordinates">>} \subseteq DOMAIN rec.v.at

\* C8: on a record that is empty or lacks `properties` or `coordinates`,
\* swob2geojson reports an error and returns None, with no fault and no
\* Feature; it returns a Feature only when both keys are present.
C8_BuilderRejectsIncompleteRecord ==
    pc # "build" =>
        /\ fault.in # "swob2geojson"
        /\ IF Complete(swob_dict)
           THEN geoJson.type = "dict"
           ELSE /\ geoJson.type = "NoneType"
                /\ Len(stdout) >= 1
                /\ stdout[1] =
                     <<"Error, incorrectly formated dictionary passed into swob2geojson">>

\* swob2geojson has returned on a record that has coordinates and no properties
C8_Witness ==
    /\ pc = "visualize"
    /\ <<"coordinates">> \in DOMAIN swob_dict.v.at
    /\ <<"properties">> \notin DOMAIN swob_dict.v.at

\* C9: for a record r with both keys, swob2geojson(r) is a Feature with type
\* "Feature", geometry type "Point", geometry coordinates equal to
\* r.coordinates and properties equal to r.properties, and r is unchanged.
C9_FeatureMirrorsRecord ==
    [][(pc = "build" /\ Complete(swob_dict)) =>
          /\ geoJson'.type = "dict"
          /\ DOMAIN geoJson'.v.at = {<<"type">>, <<"geometry">>, <<"properties">>}
          /\ geoJson'.v.at[<<"type">>] = PyStr(<<"Feature">>)
          /\ geoJson'.v.at[<<"geometry">>].type = "dict"
          /\ DOMAIN geoJson'.v.at[<<"geometry">>].v.at = {<<"type">>, <<"coordinates">>}
          /\ geoJson'.v.at[<<"geometry">>].v.at[<<"type">>] = PyStr(<<"Point">>)
          /\ geoJson'.v.at[<<"geometry">>].v.at[<<"coordinates">>]
                = swob_dict.v.at[<<"coordinates">>]
          /\ geoJson'.v.at[<<"properties">>] = swob_dict.v.at[<<"properties">>]
          /\ swob_dict' = swob_dict]_vars

\* a Feature was built from a record with a third key and two properties
C9_Witness ==
    /\ pc = "visualize"
    /\ geoJson.type = "dict"
    /\ <<"identification">> \in DOMAIN swob_dict.v.at
    /\ Len(swob_dict.v.at[<<"properties">>].v.order) = 2

----------------------------------------------------------------------------
\* SpecIdent: the entry point on documents whose identification subtree holds
\* up to MaxIdElems elements, named or not, with or without a value.

MaxIdElems == 3

IdValues == {<<"-", "75.5">>, <<"45.5">>}

IdChoices ==
    {IdElem(n, v) :
        n \in {<<"lat">>, <<"long">>, <<"stn_elev">>, <<"stn_nam">>}, v \in IdValues}
    \cup {IdElem(Absent, <<"45.5">>), IdElem(<<"lat">>, Absent)}

InitIdent ==
    \E n \in 0..MaxIdElems :
        \E es \in [1..n -> IdChoices] :
            Start(PathLiteral,
                  Document(GoodGeneral, Subtree(<<IdRoot>> \o es), GoodSamplingTime,
                           GoodResultTime, GoodResult))

SpecIdent == InitIdent /\ [][Next]_vars

\* parse_swob has returned a record
Returned == pc # "parse" /\ swob_dict.type = "dict"

\* the positions of the identification elements named n
IdNamed(n) ==
    {i \in 1..Len(doc.identification.elems) :
        LET a == doc.identification.elems[i].attr
        IN  "name" \in DOMAIN a /\ a["name"] = n}

IdValueAt(i) == doc.identification.elems[i].attr["value"]

\* x is the value text of an identification element named n, '' if none is
VerbatimOf(x, n) ==
    /\ x.type = "str"
    /\ IF IdNamed(n) = {} THEN x.v = << >>
       ELSE \E i \in IdNamed(n) : x.v = IdValueAt(i)

\* C5: a returned record's `coordinates` is a list of exactly three entries,
\* [longitude, latitude, elevation]: the value text of the identification
\* elements named long, lat and stn_elev, each '' when that element is absent.
C5_CoordinateOrder ==
    Returned =>
        LET c == swob_dict.v.at[<<"coordinates">>]
        IN  /\ c.type = "list"
            /\ Len(c.v) = 3
            /\ VerbatimOf(c.v[1], <<"long">>)
            /\ VerbatimOf(c.v[2], <<"lat">>)
            /\ VerbatimOf(c.v[3], <<"stn_elev">>)

\* a record from a document with lat and stn_elev and no long
C5_Witness ==
    /\ Returned
    /\ IdNamed(<<"long">>) = {}
    /\ IdNamed(<<"lat">>) # {}
    /\ IdNamed(<<"stn_elev">>) # {}
    /\ swob_dict.v.at[<<"coordinates">>].v[2].v # swob_dict.v.at[<<"coordinates">>].v[3].v

Min(S) == CHOOSE x \in S : \A y \in S : x <= y

Max(S) == CHOOSE x \in S : \A y \in S : y <= x

\* x is the value of the first (resp. last) identification element named n
FirstOf(x, n) == IdNamed(n) # {} => x.v = IdValueAt(Min(IdNamed(n)))

LastOf(x, n) == IdNamed(n) # {} => x.v = IdValueAt(Max(IdNamed(n)))

\* C10 as stated: with several elements named stn_elev (lat, long), the
\* coordinate is the value of the first one in document order.
C10_FirstOccurrenceWins ==
    Returned =>
        LET c == swob_dict.v.at[<<"coordinates">>].v
        IN  /\ FirstOf(c[1], <<"long">>)
            /\ FirstOf(c[2], <<"lat">>)
            /\ FirstOf(c[3], <<"stn_elev">>)

\* C10 amended: with several elements named stn_elev (lat, long), the
\* coordinate is the value of the last one in document order; every later
\* occurrence replaces the captured coordinate.  The first draft's loop, on
\* the same elements, captures the same last values.
C10_LastOccurrenceWins ==
    Returned =>
        LET c == swob_dict.v.at[<<"coordinates">>].v
            draft == draft_coordinates(doc.identification.elems)
        IN  /\ LastOf(c[1], <<"long">>)
            /\ LastOf(c[2], <<"lat">>)
            /\ LastOf(c[3], <<"stn_elev">>)
            /\ draft.fault = ""
            /\ LastOf(draft.ret.v[1], <<"long">>)
            /\ LastOf(draft.ret.v[2], <<"lat">>)
            /\ LastOf(draft.ret.v[3], <<"stn_elev">>)

\* a record from a document with two lat elements of different values
C10_Witness ==
    /\ Returned
    /\ Cardinality(IdNamed(<<"lat">>)) >= 2
    /\ IdValueAt(Min(IdNamed(<<"lat">>))) # IdValueAt(Max(IdNamed(<<"lat">>)))

----------------------------------------------------------------------------
\* SpecPath: the entry point on every path of up to MaxPathLen characters
\* over the two separators and two letters.

MaxPathLen == 3

PathChars == {"\\", "/", "x", "y"}

SwobNamedResult ==
    Subtree(<<ResultRoot,
              Node(1, MkAttr(<<"swob">>, <<"va">>, Absent))>>)

PathDocuments ==
    {Document(GoodGeneral, GoodIdentification, GoodSamplingTime, GoodResultTime, r) :
        r \in {GoodResult, SwobNamedResult}}

\* a path that names a file ends in a file name, not in a separator
InitPath ==
    \E n \in 1..MaxPathLen :
        \E path \in [1..n -> PathChars], d \in PathDocuments :
            /\ path[n] \notin {"\\", "/"}
            /\ Start(path, d)

SpecPath == InitPath /\ [][Next]_vars

\* the final component of a path that may use either separator
BaseName(path) ==
    LET seps == {i \in 1..Len(path) : path[i] \in {"/", "\\"}}
    IN  IF seps = {} THEN path ELSE SubSeq(path, Max(seps) + 1, Len(path))

Properties == swob_dict.v.at[<<"properties">>].v.at

\* C3: a returned record's `swob` property is the base file name of the input
\* path, whatever the directory prefix, whichever of '/' and '\' separates
\* it, and whatever result elements the document holds.
C3_SwobIsBaseName ==
    Returned =>
        /\ <<"swob">> \in DOMAIN Properties
        /\ Properties[<<"swob">>] = PyStr(BaseName(string))

----------------------------------------------------------------------------
\* SpecDataset: the entry point on documents whose general-info subtree holds
\* up to MaxGeneralElems elements and whose result elements may be named
\* `dataset`.

MaxGeneralElems == 2

GeneralChoices ==
    {Elem(t[1], t[2], MkAttr(n, Absent, Absent)) :
        t \in {<< <<"dataset">>, TRUE >>, << <<"author">>, TRUE >>,
               << <<"dataset">>, FALSE >>},
        n \in {Absent, <<"A", "/", "B">>, <<"/", "A", "/">>, <<"A", "B">>}}

DatasetResults ==
    {GoodResult,
     Subtree(<<ResultRoot,
               Node(1, MkAttr(<<"temp">>, <<"12.3">>, Absent)),
               Node(1, MkAttr(<<"dataset">>, <<"va">>, Absent))>>),
     Subtree(<<ResultRoot,
               Node(1, MkAttr(<<"dataset">>, <<"va">>, Absent)),
               Node(2, MkAttr(<<"dataset">>, Absent, Absent)),
               Node(1, MkAttr(<<"qa_summary">>, <<"100">>, Absent))>>)}

InitDataset ==
    \E n \in 0..MaxGeneralElems :
        \E es \in [1..n -> GeneralChoices], r \in DatasetResults :
            Start(PathLiteral,
                  Document(Subtree(<<Elem(<<"general">>, TRUE, NoAttr)>> \o es),
                           GoodIdentification, GoodSamplingTime, GoodResultTime, r))

SpecDataset == InitDataset /\ [][Next]_vars

\* the positions of the general-info elements tagged dataset that carry a name
DatasetElems ==
    {i \in 1..Len(doc.general.elems) :
        LET e == doc.general.elems[i]
        IN  e.tag = <<NsToken, "dataset">> /\ "name" \in DOMAIN e.attr}

\* the positions of the result elements named n
ResultNamed(n) ==
    {i \in 1..Len(doc.result.elems) :
        LET a == doc.result.elems[i].attr
        IN  "name" \in DOMAIN a /\ a["name"] = n}

\* the value text of the result element at i, '' without a value attribute
ResultValueAt(i) ==
    LET a == doc.result.elems[i].attr
    IN  IF "value" \in DOMAIN a THEN a["value"] ELSE << >>

\* s with every '/' turned into '-'
RECURSIVE Hyphenated(_)
Hyphenated(s) ==
    IF s = << >> THEN << >>
    ELSE <<IF Head(s) = "/" THEN "-" ELSE Head(s)>> \o Hyphenated(Tail(s))

\* C6 as stated: when the general-info subtree has an element tagged dataset
\* with name d, the record's `dataset` property is d with every '/' replaced
\* by '-', whatever result elements the document holds.
C6_DatasetFromGeneral ==
    (Returned /\ DatasetElems # {}) =>
        /\ <<"dataset">> \in DOMAIN Properties
        /\ \E i \in DatasetElems :
              Properties[<<"dataset">>]
                  = PyStr(Hyphenated(doc.general.elems[i].attr["name"]))

\* C6 amended: with d the name of the last general-info element tagged
\* dataset, the record's `dataset` property is d with every '/' replaced by
\* '-' when no result element is named `dataset`; when some are, it is the
\* value of the last of them.
C6_DatasetUnlessOverwritten ==
    (Returned /\ DatasetElems # {}) =>
        /\ <<"dataset">> \in DOMAIN Properties
        /\ Properties[<<"dataset">>] =
              IF ResultNamed(<<"dataset">>) = {}
              THEN PyStr(Hyphenated(doc.general.elems[Max(DatasetElems)].attr["name"]))
              ELSE PyStr(ResultValueAt(Max(ResultNamed(<<"dataset">>))))

\* a record from a document with two dataset elements, the last one named
\* with two slashes, and no result element named dataset
C6_Witness ==
    /\ Returned
    /\ Cardinality(DatasetElems) = 2
    /\ doc.general.elems[Max(DatasetElems)].attr["name"] = <<"/", "A", "/">>
    /\ doc.general.elems[Min(DatasetElems)].attr["name"] = <<"A", "B">>
    /\ ResultNamed(<<"dataset">>) = {}

----------------------------------------------------------------------------
\* SpecQa: the entry point on every tree of up to MaxQaNodes result elements
\* named temp, pres, qa_summary or data_flag, each with a value of its own.

MaxQaNodes == 3

\* one value per position, so that a property value names the element it
\* was taken from
ValueTokens == <<"va", "vb", "vc", "vd", "ve", "vf">>

QaNames == {<<"temp">>, <<"pres">>, <<"qa_summary">>, <<"data_flag">>}

QaResult(n, ds, ns) ==
    Subtree(<<ResultRoot>> \o
            [i \in 1..n |-> Node(ds[i], MkAttr(ns[i], <<ValueTokens[i]>>, Absent))])

InitQa ==
    \E n \in 1..MaxQaNodes :
        \E ds \in DepthSeqs(n), ns \in [1..n -> QaNames] :
            Start(PathLiteral,
                  Document(GoodGeneral, GoodIdentification, GoodSamplingTime,
                           GoodResultTime, QaResult(n, ds, ns)))

SpecQa == InitQa /\ [][Next]_vars

Annotations == {<<"qa_summary">>, <<"data_flag">>}

\* the positions of the primary result elements: named, and not an annotation
Primaries ==
    {i \in 1..Len(doc.result.elems) :
        LET a == doc.result.elems[i].attr
        IN  "name" \in DOMAIN a /\ a["name"] \notin Annotations}

\* the name of the nearest primary element before position j in document
\* order, '' when there is none
NearestPrimaryBefore(j) ==
    LET before == {i \in Primaries : i < j}
    IN  IF before = {} THEN << >>
        ELSE doc.result.elems[Max(before)].attr["name"]

\* key k with value x is what the annotation elements named n, keyed by the
\* nearest preceding primary element plus suffix, account for
DerivedFrom(k, x, n, suffix) ==
    \E j \in ResultNamed(n) :
        /\ k = NearestPrimaryBefore(j) \o suffix
        /\ x = PyStr(ResultValueAt(j))

\* C1: every `_qa` (`_data_flags`) key of a returned record is P + '_qa'
\* (P + '_data_flags') for P the nearest primary element preceding some
\* qa_summary (data_flag) element in document order, '' only when none
\* precedes it, with that element's value; no such key is produced for a
\* primary element that only follows the annotation.
C1_AnnotationKeysFromNearestPreceding ==
    Returned =>
        \A k \in DOMAIN Properties :
            /\ (k # << >> /\ k[Len(k)] = "_qa") =>
                   DerivedFrom(k, Properties[k], <<"qa_summary">>, <<"_qa">>)
            /\ (k # << >> /\ k[Len(k)] = "_data_flags") =>
                   DerivedFrom(k, Properties[k], <<"data_flag">>, <<"_data_flags">>)

----------------------------------------------------------------------------
\* SpecUom: the entry point on every tree of up to MaxUomNodes result
\* elements whose names may repeat and whose uom is missing, empty,
\* `unitless` or a unit.

MaxUomNodes == 2

UomNames == {<<"temp">>, <<"pres">>, <<"temp", "_uom">>, <<"qa_summary">>}

Uoms == {Absent, << >>, <<"unitless">>, <<"degC">>, <<"kPa">>}

UomResult(n, ds, ns, us) ==
    Subtree(<<ResultRoot>> \o
            [i \in 1..n |-> Node(ds[i], MkAttr(ns[i], <<ValueTokens[i]>>, us[i]))])

InitUom ==
    \E n \in 1..MaxUomNodes :
        \E ds \in DepthSeqs(n), ns \in [1..n -> UomNames], us \in [1..n -> Uoms] :
            Start(PathLiteral,
                  Document(GoodGeneral, GoodIdentification, GoodSamplingTime,
                           GoodResultTime, UomResult(n, ds, ns, us)))

SpecUom == InitUom /\ [][Next]_vars

ResultName(i) == doc.result.elems[i].attr["name"]

\* the result element at i carries a uom attribute
HasUom(i) == "uom" \in DOMAIN doc.result.elems[i].attr

ResultUom(i) == doc.result.elems[i].attr["uom"]

\* the result element at i carries a unit: a uom that is neither empty nor
\* the literal unitless
HasUnit(i) == HasUom(i) /\ ResultUom(i) \notin {<< >>, <<"unitless">>}

Named == {i \in 1..Len(doc.result.elems) : "name" \in DOMAIN doc.result.elems[i].attr}

====
